---- MODULE Spec2Model ----
(***************************************************************************)
(* Xeniria, a minimal static site generator (src/src/main.rs).             *)
(*                                                                         *)
(* The model follows main(): the Build command scans content/, routes each *)
(* .md entry to generate_about or parse_post_markdown, writes the post     *)
(* pages, collects the posts and writes index.html; the Serve command      *)
(* announces an address and starts the preview server.                     *)
(*                                                                         *)
(* Text is modelled as a sequence of characters, so that path handling     *)
(* (extension, to_string_lossy, ends_with, replace) is computed, not       *)
(* assumed.  markdown.rs and server.rs are not part of the sources at      *)
(* hand: parse_post_markdown, parse_page_markdown, reading_time and        *)
(* start_server are modelled from the written specification.               *)
(***************************************************************************)
EXTENDS Integers, Sequences, FiniteSets, TLC

(* ------------------------------ bounds --------------------------------- *)

\* At most this many entries in content/.
MaxFiles == 3

\* At most this many Build runs in one behaviour.
MaxBuilds == 2

\* Largest body, in words.
MaxWords == 205

(* ------------------------------- text ---------------------------------- *)

\* A byte that is not valid UTF-8, and U+FFFD REPLACEMENT CHARACTER.
InvalidByte == "\\xFF"

ReplacementChar == "U+FFFD"

CONTENT == <<"c", "o", "n", "t", "e", "n", "t">>

ABOUT_MD == <<"a", "b", "o", "u", "t", ".", "m", "d">>

MD == <<"m", "d">>

PUBLIC_SLASH == <<"p", "u", "b", "l", "i", "c", "/">>

POSTS_SLASH == <<"p", "o", "s", "t", "s", "/">>

DOT_HTML == <<".", "h", "t", "m", "l">>

PUBLIC_ABOUT_HTML == PUBLIC_SLASH \o <<"a", "b", "o", "u", "t">> \o DOT_HTML

\* The candidate names of the entries of content/.
XABOUT_MD == <<"x">> \o ABOUT_MD

PUBLIC_MD == <<"p", "u", "b", "l", "i", "c", ".", "m", "d">>

REPL_MD == <<ReplacementChar, ".", "m", "d">>

BAD_MD == <<InvalidByte, ".", "m", "d">>

HIDDEN_MD == <<".", "m", "d">>

Names == {ABOUT_MD, XABOUT_MD, PUBLIC_MD, REPL_MD, BAD_MD, HIDDEN_MD}

\* The body length, in words, of each candidate file.
WordsOf(name) ==
    CASE name = ABOUT_MD  -> 120
      [] name = XABOUT_MD -> 10
      [] name = PUBLIC_MD -> 201
      [] name = REPL_MD   -> 0
      [] name = BAD_MD    -> 200
      [] OTHER            -> 1

\* The positions of character c in s.
Positions(s, c) == {i \in 1..Len(s) : s[i] = c}

Last(S) == CHOOSE i \in S : \A j \in S : j <= i

\* Path::file_name: the part after the final '/'.
base_name(path) ==
    IF Positions(path, "/") = {} THEN path
    ELSE SubSeq(path, Last(Positions(path, "/")) + 1, Len(path))

\* Whether the file name has a '.' that splits it into stem and extension:
\* not when there is none, nor when the only one is the leading one.
HasExtension(name) == Positions(name, ".") \ {1} # {}

\* Path::extension as an Option: {} is None, {e} is Some(e).
extension(path) ==
    LET name == base_name(path) IN
    IF HasExtension(name)
    THEN {SubSeq(name, Last(Positions(name, ".")) + 1, Len(name))}
    ELSE {}

\* Path::file_stem.
file_stem(path) ==
    LET name == base_name(path) IN
    IF HasExtension(name)
    THEN SubSeq(name, 1, Last(Positions(name, ".")) - 1)
    ELSE name

\* OsStr::to_str: None when the text is not valid UTF-8.
to_str(opt) == {e \in opt : Positions(e, InvalidByte) = {}}

\* Path::to_string_lossy: every invalid byte becomes U+FFFD.
to_string_lossy(path) ==
    [i \in 1..Len(path) |-> IF path[i] = InvalidByte THEN ReplacementChar ELSE path[i]]

\* str::ends_with.
ends_with(s, suffix) ==
    /\ Len(suffix) <= Len(s)
    /\ SubSeq(s, Len(s) - Len(suffix) + 1, Len(s)) = suffix

\* str::starts_with.
starts_with(s, prefix) ==
    /\ Len(prefix) <= Len(s)
    /\ SubSeq(s, 1, Len(prefix)) = prefix

\* str::replace: every non-overlapping match of from, left to right.
RECURSIVE replace(_, _, _)
replace(s, from, to) ==
    IF s = <<>> THEN <<>>
    ELSE IF starts_with(s, from)
         THEN to \o replace(SubSeq(s, Len(from) + 1, Len(s)), from, to)
         ELSE <<s[1]>> \o replace(Tail(s), from, to)

\* DirEntry::path: the directory joined with the entry's name.
entry_path(name) == CONTENT \o <<"/">> \o name

(* ------------------------------ state ---------------------------------- *)

VARIABLES
    dir,             \* content/: the names of its entries
    valid,           \* the .md entries whose text has a well-formed front matter
    body,            \* the body length, in words, of each entry
    pc,              \* "idle", "scan" (the for loop), "done", "serving"
    build,           \* the number of Build runs started
    edits,           \* the number of edits made to content/, one between two runs
    read_dir_ok,     \* whether fs::read_dir("content") returned Ok
    scanned,         \* the entries the loop has taken, in scan order
    calls,           \* the calls made to generate_about and parse_post_markdown
    posts_collected, \* Vec<Post>
    stdout,          \* the lines printed by the running command
    public_posts,    \* the files of public/posts
    about_html,      \* public/about.html
    index_html,      \* public/index.html
    index_writes,    \* how often the running Build wrote public/index.html
    announced_port,  \* the port of the address Serve printed (0: none)
    server_port      \* the port start_server was called with (0: not serving)

fsVars == <<dir, valid, body>>

runVars == <<read_dir_ok, scanned, calls, posts_collected, stdout, index_writes>>

outVars == <<public_posts, about_html, index_html>>

serveVars == <<announced_port, server_port>>

vars == <<fsVars, pc, build, edits, runVars, outVars, serveVars>>

(* ------------------------ markdown.rs, server.rs ----------------------- *)

WordsPerMinute == 200

\* Content Analyzer: ceil(word_count / 200) minutes, at least 1.
reading_time(word_count) ==
    LET minutes == (word_count + WordsPerMinute - 1) \div WordsPerMinute IN
    IF minutes < 1 THEN 1 ELSE minutes

\* fs::read_to_string(file_path): the entries of content/ the path names.
FilesAt(file_path) == {f \in dir : entry_path(f) = file_path}

\* Front-Matter Extractor over the file read: the error, or "" for none.
read_error(file_path) ==
    IF FilesAt(file_path) = {} THEN "EncodingError"
    ELSE IF FilesAt(file_path) \cap valid = {} THEN "MalformedFrontMatter"
    ELSE ""

\* file_name = <posts_output_dir>/<source_base_name_without_extension>.html
post_file_name(file_path) == PUBLIC_SLASH \o POSTS_SLASH \o file_stem(file_path) \o DOT_HTML

\* parse_post_markdown(file_path) -> Result<Post, _>
parse_post_markdown(file_path) ==
    IF read_error(file_path) # ""
    THEN [ok |-> FALSE, err |-> read_error(file_path)]
    ELSE LET f == CHOOSE f \in FilesAt(file_path) : TRUE IN
         [ok |-> TRUE,
          post |-> [front_matter |-> f,
                    content |-> body[f],
                    reading_time |-> reading_time(body[f]),
                    file_name |-> post_file_name(file_path)]]

\* parse_page_markdown(file_path) -> Result<Page, _>
parse_page_markdown(file_path) ==
    IF read_error(file_path) # ""
    THEN [ok |-> FALSE, err |-> read_error(file_path)]
    ELSE LET f == CHOOSE f \in FilesAt(file_path) : TRUE IN
         [ok |-> TRUE, page |-> [front_matter |-> f, content |-> body[f]]]

(* ------------------------------ main.rs -------------------------------- *)

\* The address the Serve help text and start-up message name.
AnnouncedPort == 8080

\* let port = ...
ServePort == 8464

Line(msg, path) == [msg |-> msg, path |-> path]

\* The extension test as a test of the name's last characters.
is_md_by_suffix(path) == ends_with(path, <<".">> \o MD)

\* path.extension().and_then(|e| e.to_str()) == Some("md")
is_md(path) == to_str(extension(path)) = {MD}

\* let file_path = path.to_string_lossy().to_string();
file_path_of(name) == to_string_lossy(entry_path(name))

\* if file_path.ends_with("about.md")
is_about(file_path) == ends_with(file_path, ABOUT_MD)

\* The candidate names that pass the test of line 47, and those among them
\* that pass the test of line 51.
MdEntries == {n \in Names : is_md(entry_path(n))}

AboutEntries == {n \in MdEntries : is_about(file_path_of(n))}

\* The entries the loop iterates over, and those it has not taken yet.
Entries == IF read_dir_ok THEN dir ELSE {}

Range(s) == {s[i] : i \in 1..Len(s)}

Remaining == Entries \ Range(scanned)

\* fs::File::create(path) and write_all: the file is created or truncated.
WriteFile(files, path, html) ==
    {r \in files : r.path # path} \cup {[path |-> path, html |-> html, build |-> build]}

\* The post page with the word count where the reading time belongs.
post_html_word_count(post) ==
    [title |-> post.front_matter, read_time |-> post.content, content |-> post.content]

\* The post page: title, author and date, reading time, content.
post_html(post) ==
    [title |-> post.front_matter, read_time |-> post.reading_time, content |-> post.content]

\* The link with every "public" removed, not the directory prefix.
link_path_no_slash(file_name) == replace(file_name, <<"p", "u", "b", "l", "i", "c">>, <<>>)

\* let link_path = post.file_name.replace("public/", "");
link_path(file_name) == replace(file_name, PUBLIC_SLASH, <<>>)

\* One <li> of index.html.
index_entry(post) ==
    [link |-> link_path(post.file_name),
     title |-> post.front_matter,
     read_time |-> post.reading_time]

\* The list built newest first.
index_entries_reversed(posts) ==
    [i \in 1..Len(posts) |-> index_entry(posts[Len(posts) + 1 - i])]

\* for post in posts { index_html.push_str(...) }
index_entries(posts) == [i \in 1..Len(posts) |-> index_entry(posts[i])]

\* Commands::Build, up to the loop.
StartBuild ==
    /\ pc = "idle"
    /\ build < MaxBuilds
    /\ build' = build + 1
    /\ stdout' = <<Line("Building site...", <<>>)>>
    /\ posts_collected' = <<>>
    /\ scanned' = <<>>
    /\ calls' = <<>>
    /\ index_writes' = 0
    /\ \E ok \in BOOLEAN : read_dir_ok' = ok
    /\ pc' = "scan"
    /\ UNCHANGED <<fsVars, edits, outVars, serveVars>>

\* An entry whose extension is not "md": the loop body does nothing.
ScanOther(f) ==
    /\ pc = "scan"
    /\ f \in Remaining
    /\ f \notin MdEntries
    /\ scanned' = Append(scanned, f)
    /\ UNCHANGED <<fsVars, pc, build, edits, read_dir_ok, calls, posts_collected,
                   stdout, index_writes, outVars, serveVars>>

\* generate_about: Ok(page).
OnPageOk(page) ==
    /\ about_html' = [written |-> build, title |-> page.front_matter, content |-> page.content]
    /\ stdout' = Append(stdout, Line("Generated:", PUBLIC_ABOUT_HTML))
    /\ pc' = pc

\* generate_about: Err(e).
OnPageErr(file_path, e) ==
    /\ stdout' = Append(stdout, Line("Error parsing About page", file_path))
    /\ pc' = pc
    /\ UNCHANGED about_html

\* fn generate_about(file_path: &str)
generate_about(file_path) ==
    LET r == parse_page_markdown(file_path) IN
    IF r.ok THEN OnPageOk(r.page) ELSE OnPageErr(file_path, r.err)

\* An .md entry whose path ends with "about.md".
ScanAbout(f) ==
    /\ pc = "scan"
    /\ f \in Remaining
    /\ f \in MdEntries
    /\ f \in AboutEntries
    /\ scanned' = Append(scanned, f)
    /\ calls' = Append(calls, [fn |-> "generate_about", arg |-> file_path_of(f), entry |-> f])
    /\ generate_about(file_path_of(f))
    /\ UNCHANGED <<fsVars, build, edits, read_dir_ok, posts_collected, index_writes,
                   public_posts, index_html, serveVars>>

\* Ok(post): write the page, then push the post.
OnPostOk(post) ==
    /\ public_posts' = WriteFile(public_posts, post.file_name, post_html(post))
    /\ stdout' = Append(stdout, Line("Generated:", post.file_name))
    /\ posts_collected' = Append(posts_collected, post)
    /\ pc' = pc

\* Err(e): print and give up the whole Build.
OnPostErrAbort(file_path, e) ==
    /\ stdout' = Append(stdout, Line("Error parsing post", file_path))
    /\ pc' = "done"
    /\ UNCHANGED <<public_posts, posts_collected>>

\* Err(e): print and go on.
OnPostErr(file_path, e) ==
    /\ stdout' = Append(stdout, Line("Error parsing post", file_path))
    /\ pc' = pc
    /\ UNCHANGED <<public_posts, posts_collected>>

\* Any other .md entry.
ScanPost(f) ==
    /\ pc = "scan"
    /\ f \in Remaining
    /\ f \in MdEntries
    /\ f \notin AboutEntries
    /\ scanned' = Append(scanned, f)
    /\ calls' = Append(calls, [fn |-> "parse_post_markdown", arg |-> file_path_of(f), entry |-> f])
    /\ LET r == parse_post_markdown(file_path_of(f)) IN
       IF r.ok THEN OnPostOk(r.post) ELSE OnPostErr(file_path_of(f), r.err)
    /\ UNCHANGED <<fsVars, build, edits, read_dir_ok, index_writes,
                   about_html, index_html, serveVars>>

\* generate_index called from inside the loop, before the scan has ended.
GenerateIndexEarly ==
    /\ pc = "scan"
    /\ index_html' = [written |-> build, entries |-> index_entries(posts_collected)]
    /\ index_writes' = index_writes + 1
    /\ stdout' = Append(stdout, Line("Site build complete!", <<>>))
    /\ pc' = "done"
    /\ UNCHANGED <<fsVars, build, edits, read_dir_ok, scanned, calls, posts_collected,
                   public_posts, about_html, serveVars>>

\* fn generate_index(posts: &Vec<Post>), and the end of Commands::Build.
GenerateIndex ==
    /\ pc = "scan"
    /\ Remaining = {}
    /\ index_html' = [written |-> build, entries |-> index_entries(posts_collected)]
    /\ index_writes' = index_writes + 1
    /\ stdout' = stdout \o <<Line("Generated:", PUBLIC_SLASH \o <<"i", "n", "d", "e", "x">> \o DOT_HTML),
                             Line("Site build complete!", <<>>)>>
    /\ pc' = "done"
    /\ UNCHANGED <<fsVars, build, edits, read_dir_ok, scanned, calls, posts_collected,
                   public_posts, about_html, serveVars>>

\* main returns: the process and its memory are gone, public/ stays.
ExitBuild ==
    /\ pc = "done"
    /\ pc' = "idle"
    /\ posts_collected' = <<>>
    /\ scanned' = <<>>
    /\ calls' = <<>>
    /\ stdout' = <<>>
    /\ index_writes' = 0
    /\ read_dir_ok' = FALSE
    /\ UNCHANGED <<fsVars, build, edits, outVars, serveVars>>

\* Commands::Serve
Serve ==
    /\ pc = "idle"
    /\ stdout' = <<Line("Starting server at http://localhost:8080...", <<>>)>>
    /\ announced_port' = AnnouncedPort
    /\ server_port' = ServePort
    /\ pc' = "serving"
    /\ UNCHANGED <<fsVars, build, edits, read_dir_ok, scanned, calls, posts_collected,
                   index_writes, outVars>>

\* start_server returns and main ends.
ServeStop ==
    /\ pc = "serving"
    /\ pc' = "idle"
    /\ stdout' = <<>>
    /\ announced_port' = 0
    /\ server_port' = 0
    /\ UNCHANGED <<fsVars, build, edits, read_dir_ok, scanned, calls, posts_collected,
                   index_writes, outVars>>

\* Between two runs the author breaks or repairs the front matter of a file.
Edit(f) ==
    /\ pc = "idle"
    /\ build >= 1
    /\ build < MaxBuilds
    /\ edits < build
    /\ f \in dir \cap MdEntries
    /\ valid' = IF f \in valid THEN valid \ {f} ELSE valid \cup {f}
    /\ edits' = edits + 1
    /\ UNCHANGED <<dir, body, pc, build, runVars, outVars, serveVars>>

\* Between two runs the author appends words to the body of a file.
AppendWords(f, k) ==
    /\ pc = "idle"
    /\ build >= 1
    /\ build < MaxBuilds
    /\ edits < build
    /\ f \in dir
    /\ body[f] + k <= MaxWords
    /\ body' = [body EXCEPT ![f] = body[f] + k]
    /\ edits' = edits + 1
    /\ UNCHANGED <<dir, valid, pc, build, runVars, outVars, serveVars>>

InitRun ==
    /\ pc = "idle"
    /\ build = 0
    /\ edits = 0
    /\ read_dir_ok = FALSE
    /\ scanned = <<>>
    /\ calls = <<>>
    /\ posts_collected = <<>>
    /\ stdout = <<>>
    /\ public_posts = {}
    /\ about_html = [written |-> 0, title |-> <<>>, content |-> 0]
    /\ index_html = [written |-> 0, entries |-> <<>>]
    /\ index_writes = 0
    /\ announced_port = 0
    /\ server_port = 0

Init ==
    /\ dir \in {d \in SUBSET Names : Cardinality(d) <= MaxFiles}
    /\ valid \in SUBSET (dir \cap MdEntries)
    /\ body = [f \in dir |-> WordsOf(f)]
    /\ InitRun

Next ==
    \/ StartBuild
    \/ \E f \in dir : ScanOther(f)
    \/ \E f \in dir : ScanAbout(f)
    \/ \E f \in dir : ScanPost(f)
    \/ GenerateIndex
    \/ ExitBuild
    \/ Serve
    \/ ServeStop
    \/ \E f \in dir : Edit(f)

Spec == Init /\ [][Next]_vars

\* The Content Analyzer under growing bodies: one post whose body only grows.
InitAnalyzer ==
    /\ dir = {PUBLIC_MD}
    /\ valid = dir
    /\ body \in [dir -> 0..MaxWords]
    /\ InitRun

NextAnalyzer ==
    \/ StartBuild
    \/ \E f \in dir : ScanPost(f)
    \/ GenerateIndex
    \/ ExitBuild
    \/ \E f \in dir, k \in 1..MaxWords : AppendWords(f, k)

SpecAnalyzer == InitAnalyzer /\ [][NextAnalyzer]_vars

(* ------------------------------ claims --------------------------------- *)

\* The entries routed to each contract, as main.rs line 47 and 51 read.
PostRouted(f) == is_md(entry_path(f)) /\ ~ends_with(file_path_of(f), ABOUT_MD)

PageRouted(f) == is_md(entry_path(f)) /\ ends_with(file_path_of(f), ABOUT_MD)

PostParsed(f) == PostRouted(f) /\ parse_post_markdown(file_path_of(f)).ok

PostFailed(f) == PostRouted(f) /\ ~parse_post_markdown(file_path_of(f)).ok

PostOf(f) == parse_post_markdown(file_path_of(f)).post

Printed(msg, path) == \E i \in 1..Len(stdout) : stdout[i] = Line(msg, path)

\* C1: a parse failure is file-scoped.  When a Build has finished, every .md
\* entry whose parse failed has a diagnostic naming its path, every .md entry
\* whose parse succeeded has its output written by this Build (and, for a
\* post, its index entry), and index.html was written by this Build, whatever
\* the set of entries, the failing subset and the scan order.
C1_FailureIsFileScoped ==
    pc = "done" =>
        /\ index_html.written = build
        /\ \A f \in Entries :
              LET path == file_path_of(f)
                  post == parse_post_markdown(path)
                  page == parse_page_markdown(path)
              IN  /\ PostRouted(f) /\ ~post.ok => Printed("Error parsing post", path)
                  /\ PostRouted(f) /\ post.ok =>
                        /\ \E r \in public_posts :
                              /\ r.path = post.post.file_name
                              /\ r.build = build
                              /\ r.html.title = post.post.front_matter
                        /\ \E i \in 1..Len(index_html.entries) :
                              /\ index_html.entries[i].title = post.post.front_matter
                              /\ PUBLIC_SLASH \o index_html.entries[i].link = post.post.file_name
                  /\ PageRouted(f) /\ ~page.ok => Printed("Error parsing About page", path)
                  /\ PageRouted(f) /\ page.ok => about_html.written = build

\* A finished Build in which a post failed to parse before another post, and
\* the about page, were generated.
C1_Witness ==
    /\ pc = "done"
    /\ \E i, j \in 1..Len(scanned) :
          /\ i < j
          /\ PostFailed(scanned[i])
          /\ PostParsed(scanned[j])
          /\ Len(index_html.entries) = 1
    /\ about_html.written = build

\* C2: a content file whose parsing fails contributes nothing.  When a Build
\* has finished, public/posts holds no file for a post entry whose parse
\* failed and index.html holds no entry for it, also when an earlier Build
\* populated public/.
C2_FailedFileAbsent ==
    pc = "done" =>
        \A f \in Entries :
            PostFailed(f) =>
                /\ \A r \in public_posts : r.path # post_file_name(file_path_of(f))
                /\ \A i \in 1..Len(index_html.entries) :
                      PUBLIC_SLASH \o index_html.entries[i].link # post_file_name(file_path_of(f))

CallsFor(f, fn) == {i \in 1..Len(calls) : calls[i].entry = f /\ calls[i].fn = fn}

C4_IndexInAssemblyOrder ==
    pc = "done" =>
        LET parsed == SelectSeq(scanned, PostParsed) IN
        /\ Len(posts_collected) = Len(parsed)
        /\ Len(index_html.entries) = Len(parsed)
        /\ \A i \in 1..Len(parsed) :
              /\ posts_collected[i] = PostOf(parsed[i])
              /\ index_html.entries[i].title = PostOf(parsed[i]).front_matter
              /\ PUBLIC_SLASH \o index_html.entries[i].link = PostOf(parsed[i]).file_name

\* A finished Build with two different posts in the index, public.md last, and
\* an entry that is no parsed post scanned between them.
C4_Witness ==
    /\ pc = "done"
    /\ Len(index_html.entries) = 2
    /\ index_html.entries[1].title = REPL_MD
    /\ index_html.entries[2].title = PUBLIC_MD
    /\ Len(scanned) = 3
    /\ ~PostParsed(scanned[2])

\* C5: within one Build every Post.file_name is unique: no two collected posts
\* share an output path.
C5_UniqueFileNames ==
    \A i, j \in 1..Len(posts_collected) :
        i # j => posts_collected[i].file_name # posts_collected[j].file_name

\* C6: the link of an index entry is the post's output path relative to
\* public/: for file_name = public/posts/<name>.html it is posts/<name>.html,
\* <name> being the base name of the source without its extension.
C6_LinkRelativeToPublic ==
    pc = "done" =>
        \A i \in 1..Len(index_html.entries) :
            LET link == index_html.entries[i].link
                name == file_stem(posts_collected[i].front_matter)
            IN  /\ posts_collected[i].file_name = PUBLIC_SLASH \o POSTS_SLASH \o name \o DOT_HTML
                /\ link = POSTS_SLASH \o name \o DOT_HTML

\* A finished Build whose index links the post of public.md.
C6_Witness ==
    /\ pc = "done"
    /\ \E i \in 1..Len(index_html.entries) :
          index_html.entries[i].link = POSTS_SLASH \o <<"p", "u", "b", "l", "i", "c">> \o DOT_HTML

\* The least number of whole minutes that covers the words.
CeilMinutes(words) == CHOOSE n \in 0..words : n * 200 >= words /\ \A m \in 0..(n - 1) : m * 200 < words

ShownReadingTime ==
    /\ \A i \in 1..Len(posts_collected) :
          LET post == posts_collected[i] IN
          /\ post.reading_time >= 1
          /\ post.reading_time = IF CeilMinutes(post.content) = 0 THEN 1 ELSE CeilMinutes(post.content)
          /\ \E r \in public_posts :
                /\ r.path = post.file_name
                /\ r.html.read_time = post.reading_time
    /\ pc = "done" =>
          /\ Len(index_html.entries) = Len(posts_collected)
          /\ \A i \in 1..Len(posts_collected) :
                index_html.entries[i].read_time = posts_collected[i].reading_time

GrownBodyReadsNoFaster ==
    \A old \in public_posts : \A new \in public_posts' :
        new.path = old.path /\ new.html.content >= old.html.content
            => new.html.read_time >= old.html.read_time

\* C7: the reading time of every post is ceil(words / 200), at least 1; the
\* post page and the index entry show that value; and a page written for a
\* body with words appended never shows a smaller reading time.
C7_ReadingTime == []ShownReadingTime /\ [][GrownBodyReadsNoFaster]_vars

\* A second Build, after words were appended, that shows two minutes.
C7_Witness ==
    /\ pc = "done"
    /\ build = 2
    /\ edits = 1
    /\ Len(index_html.entries) = 1
    /\ index_html.entries[1].read_time = 2
    /\ \E r \in public_posts : r.html.read_time = 2 /\ r.html.content = 201

\* C8: Serve starts the server on the port of the address it announces.
C8_ServesAnnouncedPort == pc = "serving" => server_port = announced_port

\* C9: index.html is written once per Build, after every entry was processed;
\* a collected post has its page written by this Build, so every index entry
\* refers to a page this Build wrote; with content/ unreadable or no post
\* parsed, index.html is written with no entries.
C9_IndexLast ==
    /\ index_writes <= 1
    /\ index_writes = 1 => Remaining = {} /\ Range(scanned) = Entries
    /\ pc = "scan" => index_writes = 0 /\ index_html.written < build
    /\ \A i \in 1..Len(posts_collected) :
          \E r \in public_posts : r.path = posts_collected[i].file_name /\ r.build = build
    /\ pc = "done" =>
          /\ index_writes = 1
          /\ index_html.written = build
          /\ \A i \in 1..Len(index_html.entries) :
                \E r \in public_posts :
                    r.path = PUBLIC_SLASH \o index_html.entries[i].link /\ r.build = build
          /\ (~read_dir_ok \/ \A f \in Entries : ~PostParsed(f)) => index_html.entries = <<>>

\* A second Build that could not read content/ and replaced an index that had
\* an entry.
C9_Witness ==
    /\ pc = "done"
    /\ build = 2
    /\ ~read_dir_ok
    /\ dir # {}
    /\ public_posts # {}
    /\ index_html = [written |-> 2, entries |-> <<>>]

\* C10: public/about.html is generated from content/about.md only.
C10_AboutFromAboutMdOnly ==
    /\ \A i \in 1..Len(calls) : calls[i].fn = "generate_about" => calls[i].entry = ABOUT_MD
    /\ about_html.written > 0 => about_html.title = ABOUT_MD

====
